---- MODULE Spec2Model ----
(***************************************************************************)
(* rocket-sass-fairing: a Rocket fairing that compiles one sass sheet in   *)
(* on_ignite, puts it in managed state, and serves it through a request    *)
(* guard (from_request) and a responder (respond_to).                      *)
(*                                                                         *)
(* Paths are sequences of segments; an absolute path starts with "/".      *)
(* Option<T> is a sequence of length 0 (None) or 1 (Some).                 *)
(***************************************************************************)
EXTENDS Integers, Sequences, FiniteSets, TLC

VARIABLES rocket, fs, phase, console, igniteCalls, liftoffCalls, reqs

vars == <<rocket, fs, phase, console, igniteCalls, liftoffCalls, reqs>>

(***************************************************************************)
(* Bounds of the model.                                                    *)
(***************************************************************************)
MaxRequests == 2
MaxRenders == 2

Requests == 1..MaxRequests

(***************************************************************************)
(* Program constants.                                                      *)
(***************************************************************************)
DefaultMaxAge == 86400
I32Max == 2147483647
StatusOk == 200

DefaultSheetPath == <<"assets", "style.scss">>
ContentTypePlain == "text/plain; charset=utf-8"
ContentTypeCSS == "text/css; charset=utf-8"

None == <<>>
Some(x) == <<x>>

(***************************************************************************)
(* The environment: the process's working directory and the file systems   *)
(* the process may be started on.                                          *)
(***************************************************************************)
Cwd == <<"/", "srv", "app">>
ConfDir == <<"/", "srv", "app", "conf">>

Dir == [dir |-> TRUE, src |-> ""]
File(s) == [dir |-> FALSE, src |-> s]

SrcDoc == "a b { color: a b; }"
SrcAlt == "a { b: a b; }"
SrcTheme == "p { m: 0 }"
SrcBroken == "a { b: "

FsCommon ==
  (<<"/">> :> Dir) @@ (<<"/", "srv">> :> Dir) @@ (Cwd :> Dir)
  @@ (Cwd \o <<"assets">> :> Dir)
  @@ (Cwd \o <<"assets", "alt.scss">> :> File(SrcAlt))
  @@ (Cwd \o <<"assets", "broken.scss">> :> File(SrcBroken))
  @@ (ConfDir :> Dir)
  @@ (ConfDir \o <<"theme.scss">> :> File(SrcTheme))

FsWithDefault == FsCommon @@ (Cwd \o <<"assets", "style.scss">> :> File(SrcDoc))

FileSystems == {FsCommon, FsWithDefault}

(***************************************************************************)
(* Configuration: a map from key to raw figment value; an absent key is    *)
(* not in the map's domain.                                                *)
(***************************************************************************)
StrValue(p, d) == [type |-> "str", path |-> p, declared_in |-> d, num |-> 0]
NumValue(n) == [type |-> "num", path |-> <<>>, declared_in |-> None, num |-> n]
WideNumValue == [type |-> "widenum", path |-> <<>>, declared_in |-> None, num |-> 0]

PathSettings ==
  { None,
    Some(NumValue(7)),
    Some(StrValue(<<"assets", "alt.scss">>, None)),
    Some(StrValue(<<".", "assets", "..", "assets", "style.scss">>, None)),
    Some(StrValue(<<"theme.scss">>, Some(ConfDir))),
    Some(StrValue(<<"assets", "missing.scss">>, None)),
    Some(StrValue(<<"assets", "broken.scss">>, None)),
    Some(StrValue(<<"assets">>, None)) }

AgeSettings ==
  { None,
    Some(StrValue(<<"soon">>, None)),
    Some(NumValue(-1)),
    Some(NumValue(0)),
    Some(NumValue(3600)),
    Some(NumValue(86400)),
    Some(NumValue(I32Max)),
    Some(WideNumValue) }

Figments == [sass_sheet_path : PathSettings, assets_max_age : AgeSettings]

Ok(v) == [ok |-> TRUE, val |-> v, missing |-> FALSE]
Err(m) == [ok |-> FALSE, val |-> None, missing |-> m]

\* figment.extract_inner::<RelativePathBuf>(key)
extract_inner_path(figment, key) ==
  LET raw == figment[key] IN
  IF raw = None THEN Err(TRUE)
  ELSE IF raw[1].type = "str" THEN Ok(raw[1])
  ELSE Err(FALSE)

\* figment.extract_inner::<i32>(key)
extract_inner_i32(figment, key) ==
  LET raw == figment[key] IN
  IF raw = None THEN Err(TRUE)
  ELSE IF raw[1].type = "num" /\ raw[1].num >= -I32Max - 1 /\ raw[1].num <= I32Max
       THEN Ok(raw[1].num)
  ELSE Err(FALSE)

(***************************************************************************)
(* Paths.                                                                  *)
(***************************************************************************)
IsAbsolute(p) == Len(p) > 0 /\ p[1] = "/"

\* Path::join: an absolute right-hand side replaces the left-hand side.
Join(base, p) == IF IsAbsolute(p) THEN p ELSE base \o p

Parent(p) == IF Len(p) <= 1 THEN p ELSE SubSeq(p, 1, Len(p) - 1)

\* RelativePathBuf::relative(): the path relative to the directory of the
\* file that declared it, or the path as written when no file declared it.
relative(v) ==
  IF v.declared_in = None THEN v.path ELSE Join(v.declared_in[1], v.path)

\* Resolution of one path, component by component, as canonicalize does it:
\* "." stays, ".." goes to the parent, a name must exist in a directory.
RECURSIVE Walk(_, _, _)
Walk(files, cur, rest) ==
  IF rest = <<>> THEN Ok(cur)
  ELSE IF cur \notin DOMAIN files \/ ~files[cur].dir THEN Err(FALSE)
  ELSE LET seg == Head(rest) IN
       IF seg = "." THEN Walk(files, cur, Tail(rest))
       ELSE IF seg = ".." THEN Walk(files, Parent(cur), Tail(rest))
       ELSE IF cur \o <<seg>> \in DOMAIN files
            THEN Walk(files, cur \o <<seg>>, Tail(rest))
       ELSE Err(FALSE)

\* normpath's PathExt::normalize: an absolute path of an existing entry, or
\* an io error.
normalize(files, p) ==
  IF IsAbsolute(p) THEN Walk(files, <<"/">>, Tail(p)) ELSE Walk(files, Cwd, p)

(***************************************************************************)
(* The compiler, a function of the file's text and the output style.       *)
(***************************************************************************)
Compressed == "compressed"
Expanded == "expanded"

grass_from_string(src, style) ==
  CASE src = SrcDoc ->
         Ok(IF style = Compressed THEN "a b{color:a b}" ELSE "a b {\n  color: a b;\n}\n")
    [] src = SrcAlt ->
         Ok(IF style = Compressed THEN "a{b:a b}" ELSE "a {\n  b: a b;\n}\n")
    [] src = SrcTheme ->
         Ok(IF style = Compressed THEN "p{m:0}" ELSE "p {\n  m: 0;\n}\n")
    [] OTHER -> [ok |-> FALSE, val |-> "Error: expected \"}\".", missing |-> FALSE]

\* grass::from_path(path, options)
grass_from_path(files, p, style) ==
  IF p \notin DOMAIN files
    THEN [ok |-> FALSE, val |-> "No such file or directory", missing |-> FALSE]
  ELSE IF files[p].dir
    THEN [ok |-> FALSE, val |-> "Is a directory", missing |-> FALSE]
  ELSE grass_from_string(files[p].src, style)

(***************************************************************************)
(* Managed state and the host instance.                                    *)
(***************************************************************************)
SassSheet(c, a, p) == [content |-> c, cache_max_age |-> a, path |-> p]

\* Rocket::state::<SassSheet>()
state(r) == r.managed

\* A manage that is dropped: the instance is returned without the sheet.
manage_dropped(r, sheet) == r

\* Rocket::manage(sheet)
manage(r, sheet) == [r EXCEPT !.managed = Some(sheet)]

Line(level, text, arg) == [level |-> level, text |-> text, arg |-> arg]
Call(fn, ok, arg) == [fn |-> fn, ok |-> ok, arg |-> arg]

(***************************************************************************)
(* SassSheetFairing::on_ignite                                             *)
(***************************************************************************)
\* let configured_path = figment.extract_inner(..).map(|path| path.relative())
configured_path(figment) ==
  LET e == extract_inner_path(figment, "sass_sheet_path") IN
  IF e.ok THEN Ok(relative(e.val)) ELSE e

\* Every extraction error, not only a missing key, falls back to the default.
relative_path_unwrap_or(figment) ==
  LET c == configured_path(figment) IN
  IF c.ok THEN c ELSE Ok(DefaultSheetPath)

\* match configured_path { Ok(path) => path, Err(e) if e.missing() => default,
\*                         Err(e) => return Err(rocket) }
relative_path(figment) ==
  LET c == configured_path(figment) IN
  IF c.ok THEN c
  ELSE IF c.missing THEN Ok(DefaultSheetPath)
  ELSE c

\* The setting is never read: the default is always applied.
cache_max_age_unread(figment) == DefaultMaxAge

\* figment.extract_inner::<i32>("assets_max_age").unwrap_or(86400)
cache_max_age(figment) ==
  LET e == extract_inner_i32(figment, "assets_max_age") IN
  IF e.ok THEN e.val ELSE DefaultMaxAge

\* grass::Options::default().style(grass::OutputStyle::Compressed)
options == Compressed

IgniteOutcome(ok, r, lines, calls) ==
  [ok |-> ok, rocket |-> r, console |-> lines, calls |-> calls]

\* The handler from entry to return: the value returned (Ok or Err with the
\* instance), the lines written and the calls made, in order.
on_ignite(r, files) ==
  LET rel == relative_path(r.figment)
      c1 == <<Call("extract_inner:sass_sheet_path", rel.ok, <<>>)>>
  IN
  IF ~rel.ok
    THEN IgniteOutcome(FALSE, r,
           <<Line("error", "pretty_print_error", <<"sass_sheet_path">>)>>, c1)
  ELSE
  LET norm == normalize(files, rel.val)
      c2 == c1 \o <<Call("normalize", norm.ok, <<>>)>>
  IN
  IF ~norm.ok
    THEN IgniteOutcome(FALSE, r,
           <<Line("error", "Invalid sass sheet file", rel.val)>>, c2)
  ELSE
  LET path == norm.val
      l3 == << Line("info", "Compiling sass... file", path),
               Line("stdout", "Compiling sass... file", path) >>
      css == grass_from_path(files, path, options)
      c3 == c2 \o <<Call("grass::from_path", css.ok, <<>>)>>
  IN
  IF ~css.ok
    THEN IgniteOutcome(FALSE, r,
           l3 \o <<Line("error", "Couldn't compile sass", <<css.val>>)>>, c3)
  ELSE
  LET age == cache_max_age(r.figment)
      sheet == SassSheet(css.val, age, path)
      c4 == c3 \o << Call("extract_inner:assets_max_age",
                          extract_inner_i32(r.figment, "assets_max_age").ok, <<>>),
                     Call("manage", TRUE, <<sheet>>) >>
  IN IgniteOutcome(TRUE, manage(r, sheet), l3, c4)

(***************************************************************************)
(* SassSheetFairing::on_liftoff                                            *)
(***************************************************************************)
\* The lines on_liftoff writes; state().expect(..) panics on None.
on_liftoff(r) ==
  LET st == state(r) IN
  IF st = None
    THEN [panic |-> TRUE, console |-> <<>>]
  ELSE [panic |-> FALSE,
        console |-> << Line("info", "Assets", <<>>),
                       Line("info", "sheet path", st[1].path),
                       Line("info", "cache max age", <<st[1].cache_max_age>>) >>]

(***************************************************************************)
(* FromRequest for &SassSheet                                              *)
(***************************************************************************)
Success(sheet) == [outcome |-> "Success", sheet |-> Some(sheet)]
Forward == [outcome |-> "Forward", sheet |-> None]

\* The guard asks for a type that is not managed, so it never finds a sheet.
from_request_other_type(r) == Forward

\* req.rocket().state::<SassSheet>().or_forward(())
from_request(r) ==
  LET st == state(r) IN
  IF st = None THEN Forward ELSE Success(st[1])

(***************************************************************************)
(* Responder for &SassSheet                                                *)
(***************************************************************************)
Digit(d) ==
  CASE d = 0 -> "0" [] d = 1 -> "1" [] d = 2 -> "2" [] d = 3 -> "3"
    [] d = 4 -> "4" [] d = 5 -> "5" [] d = 6 -> "6" [] d = 7 -> "7"
    [] d = 8 -> "8" [] d = 9 -> "9"

RECURSIVE Decimal(_)
Decimal(n) == IF n < 10 THEN Digit(n) ELSE Decimal(n \div 10) \o Digit(n % 10)

\* Display for i32, as format!("{}", n) writes it.
Display(n) == IF n < 0 THEN "-" \o Decimal(0 - n) ELSE Decimal(n)

\* Header names compare without regard to case.
Lower(name) ==
  CASE name = "Content-Type" -> "content-type"
    [] name = "Cache-control" -> "cache-control"
    [] name = "Cache-Control" -> "cache-control"
    [] OTHER -> name

Header(name, value) == [name |-> name, value |-> value]

\* Builder::header_adjoin: adds a value, keeping those already there.
adjoin_header(resp, h) == [resp EXCEPT !.headers = @ \o <<h>>]

\* Builder::header / Builder::raw_header: replaces every header of that name.
set_header(resp, h) ==
  [resp EXCEPT !.headers =
     SelectSeq(@, LAMBDA x : Lower(x.name) # Lower(h.name)) \o <<h>>]

\* Responder for &str: a sized body with the text/plain content type.
str_respond_to(text) ==
  [status |-> StatusOk, headers |-> <<Header("Content-Type", ContentTypePlain)>>,
   body |-> text]

\* Response::build_from(content.respond_to(req)?).header(ContentType::CSS)
\*   .raw_header("Cache-control", format!("max-age={}", self.cache_max_age)).ok()
respond_to(self) ==
  LET content == self.content IN
  set_header(
    set_header(str_respond_to(content), Header("Content-Type", ContentTypeCSS)),
    Header("Cache-control", "max-age=" \o Display(self.cache_max_age)))

(***************************************************************************)
(* The process: launch() runs the ignite fairings, then the liftoff        *)
(* fairings, then serves requests; a failed ignite fairing ends the        *)
(* launch.  Each request runs the guard, and the route hands the guarded   *)
(* reference to the responder.                                             *)
(***************************************************************************)
NewRequest == [pc |-> "new", outcome |-> "", seen |-> None, responses |-> <<>>,
               calls |-> <<>>]

Init ==
  /\ rocket \in [figment : Figments, managed : {None}]
  /\ fs \in FileSystems
  /\ phase = "build"
  /\ console = <<>>
  /\ igniteCalls = <<>>
  /\ liftoffCalls = <<>>
  /\ reqs = [t \in Requests |-> NewRequest]

Ignite ==
  /\ phase = "build"
  /\ LET o == on_ignite(rocket, fs) IN
       /\ rocket' = o.rocket
       /\ phase' = IF o.ok THEN "ignited" ELSE "failed"
       /\ console' = console \o o.console
       /\ igniteCalls' = o.calls
  /\ UNCHANGED <<fs, liftoffCalls, reqs>>

Liftoff ==
  /\ phase = "ignited"
  /\ LET l == on_liftoff(rocket) IN
       /\ phase' = IF l.panic THEN "panicked" ELSE "orbit"
       /\ console' = console \o l.console
       /\ liftoffCalls' = <<Call("state", ~l.panic, <<>>)>>
  /\ UNCHANGED <<rocket, fs, igniteCalls, reqs>>

FromRequest(t) ==
  /\ phase = "orbit"
  /\ reqs[t].pc = "new"
  /\ LET out == from_request(rocket) IN
       reqs' = [reqs EXCEPT ![t] =
                  [@ EXCEPT !.pc = IF out.outcome = "Success" THEN "guarded"
                                   ELSE "forwarded",
                            !.outcome = out.outcome,
                            !.seen = out.sheet,
                            !.calls = @ \o <<Call("state", out.sheet # None, <<>>)>>]]
  /\ UNCHANGED <<rocket, fs, phase, console, igniteCalls, liftoffCalls>>

\* A responder that advertises the remaining lifetime, counting the sheet's
\* cache_max_age down on every render.
RespondToAging(t) ==
  /\ phase = "orbit"
  /\ reqs[t].pc = "guarded"
  /\ Len(reqs[t].responses) < MaxRenders
  /\ state(rocket) # None
  /\ reqs' = [reqs EXCEPT ![t] =
                [@ EXCEPT !.responses = @ \o <<respond_to(state(rocket)[1])>>,
                          !.calls = @ \o << Call("str::respond_to", TRUE, <<>>),
                                            Call("format", TRUE, <<>>) >>]]
  /\ rocket' = [rocket EXCEPT !.managed[1].cache_max_age = @ - 1]
  /\ UNCHANGED <<fs, phase, console, igniteCalls, liftoffCalls>>

\* A responder that moves the content out of the sheet it serves.
RespondToTakes(t) ==
  /\ phase = "orbit"
  /\ reqs[t].pc = "guarded"
  /\ Len(reqs[t].responses) < MaxRenders
  /\ state(rocket) # None
  /\ reqs' = [reqs EXCEPT ![t] =
                [@ EXCEPT !.responses = @ \o <<respond_to(state(rocket)[1])>>,
                          !.calls = @ \o << Call("str::respond_to", TRUE, <<>>),
                                            Call("format", TRUE, <<>>) >>]]
  /\ rocket' = [rocket EXCEPT !.managed[1].content = ""]
  /\ UNCHANGED <<fs, phase, console, igniteCalls, liftoffCalls>>

\* A responder that compiles the sheet again for every response.
RespondToRecompiles(t) ==
  /\ phase = "orbit"
  /\ reqs[t].pc = "guarded"
  /\ Len(reqs[t].responses) < MaxRenders
  /\ state(rocket) # None
  /\ LET self == state(rocket)[1]
         css == grass_from_path(fs, self.path, options)
     IN reqs' = [reqs EXCEPT ![t] =
                   [@ EXCEPT !.responses =
                               @ \o <<respond_to([self EXCEPT !.content = css.val])>>,
                             !.calls = @ \o << Call("grass::from_path", css.ok, <<>>),
                                               Call("str::respond_to", TRUE, <<>>),
                                               Call("format", TRUE, <<>>) >>]]
  /\ UNCHANGED <<rocket, fs, phase, console, igniteCalls, liftoffCalls>>

\* The responder reads through the reference the guard returned, which
\* points into managed state.
RespondTo(t) ==
  /\ phase = "orbit"
  /\ reqs[t].pc = "guarded"
  /\ Len(reqs[t].responses) < MaxRenders
  /\ state(rocket) # None
  /\ reqs' = [reqs EXCEPT ![t] =
                [@ EXCEPT !.responses = @ \o <<respond_to(state(rocket)[1])>>,
                          !.calls = @ \o << Call("str::respond_to", TRUE, <<>>),
                                            Call("format", TRUE, <<>>) >>]]
  /\ UNCHANGED <<rocket, fs, phase, console, igniteCalls, liftoffCalls>>

Next ==
  \/ Ignite
  \/ Liftoff
  \/ \E t \in Requests : FromRequest(t)
  \/ \E t \in Requests : RespondTo(t)

Spec == Init /\ [][Next]_vars

(***************************************************************************)
(* Vocabulary of the properties.                                           *)
(***************************************************************************)
PathSetting == rocket.figment.sass_sheet_path
AgeSetting == rocket.figment.assets_max_age

PathAbsent == PathSetting = None
PathMalformed == PathSetting # None /\ PathSetting[1].type # "str"
AgeAbsent == AgeSetting = None
AgeMalformed == AgeSetting # None /\ AgeSetting[1].type = "str"
AgeIsI32 == AgeSetting # None /\ AgeSetting[1].type = "num"

\* The path startup works from: the default, or the configured one.
ChosenPath ==
  IF PathAbsent THEN <<"assets", "style.scss">> ELSE relative(PathSetting[1])

PathNotFound == ~PathMalformed /\ ~normalize(fs, ChosenPath).ok
CompilerRejects ==
  /\ ~PathMalformed
  /\ normalize(fs, ChosenPath).ok
  /\ ~grass_from_path(fs, normalize(fs, ChosenPath).val, Compressed).ok

Started == phase \in {"ignited", "orbit"}
IsPublished == state(rocket) # None
Sheet == state(rocket)[1]

CallsTo(log, fn) == SelectSeq(log, LAMBDA c : c.fn = fn)

\* The sheets handed to manage at startup, in order.
Published == CallsTo(igniteCalls, "manage")

Retrieved(t) == reqs[t].pc # "new"
Responses == UNION {{reqs[t].responses[i] : i \in DOMAIN reqs[t].responses} : t \in Requests}

HeaderValues(resp, name) ==
  LET hs == SelectSeq(resp.headers, LAMBDA h : Lower(h.name) = name)
  IN [i \in DOMAIN hs |-> hs[i].value]

\* The cache-control values of the lifetimes the model configures, written out.
MaxAgeText(n) ==
  CASE n = 86400 -> "max-age=86400"
    [] n = 3600 -> "max-age=3600"
    [] n = 0 -> "max-age=0"
    [] n = -1 -> "max-age=-1"
    [] n = 2147483647 -> "max-age=2147483647"
    [] OTHER -> "unlisted"

\* C1: whenever on_ignite succeeded, exactly one sheet was published into
\* managed state, and every retrieval made since succeeded and saw that sheet,
\* with the content and cache_max_age published at startup.
C1_PublishedOnceSameSheet ==
  Started =>
    /\ Len(Published) = 1
    /\ state(rocket) = Published[1].arg
    /\ \A t \in Requests :
         Retrieved(t) =>
           /\ reqs[t].outcome = "Success"
           /\ reqs[t].seen[1].content = Published[1].arg[1].content
           /\ reqs[t].seen[1].cache_max_age = Published[1].arg[1].cache_max_age
           /\ reqs[t].seen = Published[1].arg

C1_Witness ==
  /\ phase = "orbit"
  /\ \A t \in Requests : reqs[t].pc = "guarded" /\ reqs[t].seen = state(rocket)
  /\ ~PathAbsent /\ AgeAbsent

\* C2: when the path setting is malformed, the chosen path cannot be
\* normalized, or the compiler rejects the source, on_ignite fails and returns
\* the instance unchanged, nothing is published, a retrieval would forward
\* rather than fail, and no liftoff or request ever runs.
C2_StartupAllOrNothing ==
  (PathMalformed \/ PathNotFound \/ CompilerRejects) /\ phase # "build" =>
    /\ phase = "failed"
    /\ rocket = [figment |-> rocket.figment, managed |-> None]
    /\ Published = <<>>
    /\ from_request(rocket).outcome = "Forward"
    /\ liftoffCalls = <<>>
    /\ \A t \in Requests : reqs[t] = NewRequest

C2_Witness ==
  /\ phase = "failed"
  /\ PathMalformed
  /\ (fs = FsWithDefault)
  /\ ~IsPublished

\* C3: when assets_max_age is present but not an integer, startup aborts and
\* no sheet is published.
C3_MalformedAgeAborts ==
  AgeMalformed /\ phase # "build" => phase = "failed" /\ ~IsPublished

\* C4: with valid settings, the published path is the normalized default path
\* when the path setting is absent and the normalized configured path
\* otherwise, and the published cache_max_age is 86400 when the lifetime
\* setting is absent and the configured integer otherwise, one independently
\* of the other.
C4_DefaultsIndependent ==
  Started /\ ~PathMalformed /\ (AgeAbsent \/ AgeIsI32) =>
    /\ IsPublished
    /\ Sheet.path = normalize(fs, ChosenPath).val
    /\ PathAbsent => Sheet.path = <<"/", "srv", "app", "assets", "style.scss">>
    /\ PathSetting = Some(StrValue(<<"assets", "alt.scss">>, None)) =>
         Sheet.path = <<"/", "srv", "app", "assets", "alt.scss">>
    /\ PathSetting = Some(StrValue(<<"theme.scss">>, Some(ConfDir))) =>
         Sheet.path = <<"/", "srv", "app", "conf", "theme.scss">>
    /\ Sheet.cache_max_age = IF AgeAbsent THEN 86400 ELSE AgeSetting[1].num

C4_Witness ==
  /\ Started
  /\ PathAbsent /\ ~AgeAbsent
  /\ Sheet.path = <<"/", "srv", "app", "assets", "style.scss">>
  /\ Sheet.cache_max_age = 3600

\* C5: every response rendered from the published sheet has status 200, the
\* stored content as its body, exactly one content type, text/css, exactly
\* one cache-control value, "max-age=" followed by the sheet's cache_max_age,
\* and no other header.
C5_RenderedResponse ==
  \A resp \in Responses :
    /\ resp.status = 200
    /\ resp.body = Sheet.content
    /\ HeaderValues(resp, "content-type") = <<"text/css; charset=utf-8">>
    /\ HeaderValues(resp, "cache-control") = <<MaxAgeText(Sheet.cache_max_age)>>
    /\ Len(resp.headers) = 2
    /\ AgeAbsent => HeaderValues(resp, "cache-control") = <<"max-age=86400">>

C5_Witness ==
  /\ \E t \in Requests :
       /\ Len(reqs[t].responses) = 1
       /\ reqs[t].responses[1].body = "a b{color:a b}"
       /\ HeaderValues(reqs[t].responses[1], "cache-control") = <<"max-age=3600">>
  /\ AgeSetting = Some(NumValue(3600))

\* C6: any two renders of the published sheet, in one request or in two, give
\* the same status, body and headers.
C6_RenderIdempotent ==
  \A t, u \in Requests :
    \A i \in DOMAIN reqs[t].responses : \A j \in DOMAIN reqs[u].responses :
      /\ reqs[t].responses[i].body = reqs[u].responses[j].body
      /\ reqs[t].responses[i].headers = reqs[u].responses[j].headers
      /\ reqs[t].responses[i] = reqs[u].responses[j]

C6_Witness ==
  \E t, u \in Requests :
    /\ t # u
    /\ Len(reqs[t].responses) = 2
    /\ Len(reqs[u].responses) = 1

\* C7: on_liftoff and every retrieval run only after on_ignite has returned
\* Ok with the sheet published: on_liftoff's lookup finds the sheet (it never
\* panics) and no retrieval forwards.
C7_IgniteBeforeLiftoffAndRequests ==
  /\ phase # "panicked"
  /\ liftoffCalls # <<>> =>
       /\ igniteCalls # <<>>
       /\ IsPublished
       /\ \A i \in DOMAIN liftoffCalls : liftoffCalls[i].ok
  /\ \A t \in Requests :
       Retrieved(t) =>
         /\ liftoffCalls # <<>>
         /\ IsPublished
         /\ reqs[t].outcome = "Success"
         /\ reqs[t].pc # "forwarded"

C7_Witness ==
  /\ phase = "orbit"
  /\ liftoffCalls # <<>>
  /\ \E t \in Requests : reqs[t].pc = "guarded" /\ reqs[t].outcome = "Success"
  /\ \E t \in Requests : reqs[t].pc = "new"

\* C8: a published sheet's cache_max_age is never negative.
C8_MaxAgeNonNegative ==
  IsPublished => Sheet.cache_max_age >= 0

\* C9: the compiler is called at most once, by on_ignite, directly after a
\* successful normalize; on_liftoff and the request-time operations call
\* neither the compiler nor normalize, and the startup calls are never added
\* to once on_ignite has returned.
C9_CompileOnceAtStartup ==
  /\ [](/\ Len(CallsTo(igniteCalls, "grass::from_path")) <= 1
        /\ Len(CallsTo(igniteCalls, "normalize")) <= 1
        /\ \A i \in DOMAIN igniteCalls :
             igniteCalls[i].fn = "grass::from_path" =>
               /\ i > 1
               /\ igniteCalls[i - 1].fn = "normalize"
               /\ igniteCalls[i - 1].ok
        /\ CallsTo(liftoffCalls, "grass::from_path") = <<>>
        /\ CallsTo(liftoffCalls, "normalize") = <<>>
        /\ \A t \in Requests :
             /\ CallsTo(reqs[t].calls, "grass::from_path") = <<>>
             /\ CallsTo(reqs[t].calls, "normalize") = <<>>)
  /\ [][phase # "build" => igniteCalls' = igniteCalls]_vars

C9_Witness ==
  /\ Len(CallsTo(igniteCalls, "grass::from_path")) = 1
  /\ \A t \in Requests : Len(reqs[t].responses) = MaxRenders

\* C10: once a sheet is published no step of any request changes it, and
\* every response of every request is the render of the published sheet,
\* whatever the other requests have done.
C10_ReadOnlyAfterPublication ==
  /\ [][IsPublished => rocket' = rocket]_vars
  /\ [](\A t \in Requests : \A i \in DOMAIN reqs[t].responses :
          /\ Len(Published) = 1
          /\ reqs[t].responses[i] = respond_to(Published[1].arg[1]))

C10_Witness ==
  /\ \A t \in Requests : Len(reqs[t].responses) >= 1
  /\ \E t \in Requests : Len(reqs[t].responses) = MaxRenders
  /\ state(rocket) = Published[1].arg

====
